---- MODULE Spec2Model ----
(***************************************************************************)
(* System sensors of the Unraid integration                                *)
(* (custom_components/unraid/sensors/system.py).                           *)
(*                                                                         *)
(* Every sensor reads the coordinator's snapshot (a nested Python dict)    *)
(* through its value_fn, available_fn and extra_state_attributes.  The     *)
(* model keeps Python's values, their types and the exceptions the         *)
(* operations raise, so that a lookup on a value that is no mapping, a     *)
(* failed conversion or a rejected reading is an outcome of the model.     *)
(***************************************************************************)
EXTENDS Integers, Sequences, FiniteSets, TLC

VARIABLES
    data,       \* coordinator.data: the snapshot the sensors read
    now,        \* dt_util.now(), in seconds since the model's origin
    boot_time,  \* UnraidUptimeSensor._boot_time
    value,      \* the text of a reading, as handed to _parse_temperature
    written,    \* the number that text was written from, None if it holds none
    out         \* what the last read returned or raised

vars == <<data, now, boot_time, value, written, out>>

(***************************************************************************)
(* Python values.  A float is a fixed-point number with two decimal        *)
(* digits (Scale units per 1.0); inf and nan are values of their own.  A   *)
(* str is a sequence of characters, the degree sign being the character    *)
(* "deg".  A dict is the sequence of its (key, value) items in insertion   *)
(* order.                                                                  *)
(***************************************************************************)
Scale == 10 * 10

None == [t |-> "none"]
PyInt(n) == [t |-> "int", n |-> n]
PyFloat(x) == [t |-> "float", x |-> x]
PyInf == [t |-> "inf"]
PyNaN == [t |-> "nan"]
PyStr(s) == [t |-> "str", s |-> s]
PyDict(items) == [t |-> "dict", items |-> items]
PyDateTime(x) == [t |-> "datetime", x |-> x]
EmptyDict == PyDict(<<>>)

\* The outcome of evaluating an expression: a value, or an exception.
Ret(v) == [k |-> "ret", v |-> v]
Raise(e) == [k |-> "raise", e |-> e]

IsNumber(v) == v.t \in {"int", "float"}
\* The number a finite int or float holds, in Scale units.
Num(v) == IF v.t = "int" THEN v.n * Scale ELSE v.x

HasKey(d, key) == \E i \in 1..Len(d.items) : d.items[i][1] = key
Lookup(d, key) == d.items[CHOOSE i \in 1..Len(d.items) : d.items[i][1] = key][2]

\* obj.get(key, default): AttributeError unless obj is a dict.
Get(obj, key, default) ==
    IF obj.t # "dict" THEN Raise("AttributeError")
    ELSE IF HasKey(obj, key) THEN Ret(Lookup(obj, key))
    ELSE Ret(default)

\* obj[key] on a dict.
Subscript(obj, key) ==
    IF obj.t # "dict" THEN Raise("TypeError")
    ELSE IF HasKey(obj, key) THEN Ret(Lookup(obj, key))
    ELSE Raise("KeyError")

\* a.get(k1, {}).get(k2, default), the chain the lambdas are written with.
Get2(obj, k1, k2, default) ==
    LET a == Get(obj, k1, EmptyDict)
    IN  IF a.k = "raise" THEN a ELSE Get(a.v, k2, default)

Get3(obj, k1, k2, k3, default) ==
    LET a == Get2(obj, k1, k2, EmptyDict)
    IN  IF a.k = "raise" THEN a ELSE Get(a.v, k3, default)

(***************************************************************************)
(* Strings.                                                                *)
(***************************************************************************)
Digits == <<"0", "1", "2", "3", "4", "5", "6", "7", "8", "9">>
IsDigit(c) == \E i \in 1..Len(Digits) : Digits[i] = c
DigitVal(c) == (CHOOSE i \in 1..Len(Digits) : Digits[i] = c) - 1
Whitespace == {" ", "tab"}

UpperCase == <<"A", "B", "C", "D", "E", "F", "G", "H", "I", "J", "K", "L", "M",
               "N", "O", "P", "Q", "R", "S", "T", "U", "V", "W", "X", "Y", "Z">>
LowerCase == <<"a", "b", "c", "d", "e", "f", "g", "h", "i", "j", "k", "l", "m",
               "n", "o", "p", "q", "r", "s", "t", "u", "v", "w", "x", "y", "z">>
LowerOf ==
    [c \in {UpperCase[i] : i \in 1..Len(UpperCase)} |->
        LowerCase[CHOOSE i \in 1..Len(UpperCase) : UpperCase[i] = c]]
LowerChar(c) == IF c \in DOMAIN LowerOf THEN LowerOf[c] ELSE c

\* s.lower()
Lower(s) == [i \in 1..Len(s) |-> LowerChar(s[i])]

\* sub in s
Contains(sub, s) ==
    \E i \in 0..(Len(s) - Len(sub)) : \A j \in 1..Len(sub) : s[i + j] = sub[j]

\* s.replace(old, ''): every non-overlapping occurrence, left to right.
RECURSIVE Remove(_, _)
Remove(s, old) ==
    IF Len(s) < Len(old) THEN s
    ELSE IF SubSeq(s, 1, Len(old)) = old
         THEN Remove(SubSeq(s, Len(old) + 1, Len(s)), old)
         ELSE <<s[1]>> \o Remove(Tail(s), old)

\* s.strip()
RECURSIVE LStrip(_)
LStrip(s) == IF s # <<>> /\ s[1] \in Whitespace THEN LStrip(Tail(s)) ELSE s
RECURSIVE RStrip(_)
RStrip(s) ==
    IF s # <<>> /\ s[Len(s)] \in Whitespace
    THEN RStrip(SubSeq(s, 1, Len(s) - 1)) ELSE s
Strip(s) == RStrip(LStrip(s))

\* The decimal digits of a natural number.
RECURSIVE NatChars(_)
NatChars(n) ==
    IF n < 10 THEN <<Digits[n + 1]>>
    ELSE NatChars(n \div 10) \o <<Digits[(n % 10) + 1]>>

\* str(n) of an int.
IntChars(n) == IF n < 0 THEN <<"-">> \o NatChars(-n) ELSE NatChars(n)

\* str(x) of a finite float: the shortest decimal, at least one fraction digit.
FloatChars(x) ==
    LET a == IF x < 0 THEN -x ELSE x
        f == a % Scale
        frac == IF f % 10 = 0 THEN <<Digits[(f \div 10) + 1]>>
                ELSE <<Digits[(f \div 10) + 1], Digits[(f % 10) + 1]>>
    IN  (IF x < 0 THEN <<"-">> ELSE <<>>) \o NatChars(a \div Scale) \o <<".">> \o frac

\* str(v)
Str(v) ==
    CASE v.t = "str" -> v.s
      [] v.t = "int" -> IntChars(v.n)
      [] v.t = "float" -> FloatChars(v.x)
      [] v.t = "inf" -> <<"i", "n", "f">>
      [] v.t = "nan" -> <<"n", "a", "n">>
      [] v.t = "none" -> <<"N", "o", "n", "e">>

(***************************************************************************)
(* Numbers.                                                                *)
(***************************************************************************)
RECURSIVE DigitsValue(_)
DigitsValue(s) ==
    IF s = <<>> THEN 0
    ELSE 10 * DigitsValue(SubSeq(s, 1, Len(s) - 1)) + DigitVal(s[Len(s)])

AllDigits(s) == \A i \in 1..Len(s) : IsDigit(s[i])

\* An unsigned decimal literal: digits, optionally a point and more digits,
\* with a digit on at least one side of the point.
IsDecimal(s) ==
    \/ s # <<>> /\ AllDigits(s)
    \/ \E p \in 1..Len(s) :
          /\ s[p] = "."
          /\ AllDigits(SubSeq(s, 1, p - 1))
          /\ AllDigits(SubSeq(s, p + 1, Len(s)))
          /\ Len(s) > 1

\* Its value in Scale units (the literals of the model carry at most two
\* fraction digits).
DecimalValue(s) ==
    IF AllDigits(s) THEN DigitsValue(s) * Scale
    ELSE LET p == CHOOSE p \in 1..Len(s) : s[p] = "."
             fr == SubSeq(s, p + 1, Len(s))
         IN  DigitsValue(SubSeq(s, 1, p - 1)) * Scale
             + (IF Len(fr) = 0 THEN 0
                ELSE IF Len(fr) = 1 THEN DigitsValue(fr) * 10
                ELSE DigitsValue(SubSeq(fr, 1, 2)))

\* float(s) of a str: surrounding whitespace ignored, an optional sign, then
\* a decimal literal, "inf" or "nan"; ValueError otherwise.  (The sign of an
\* infinity is not kept: both infinities lie outside every range and have
\* no int.)
FloatOfStr(s) ==
    LET t == Strip(s)
        signed == t # <<>> /\ t[1] \in {"+", "-"}
        neg == t # <<>> /\ t[1] = "-"
        body == IF signed THEN Tail(t) ELSE t
    IN  IF IsDecimal(body)
        THEN Ret(PyFloat(IF neg THEN -DecimalValue(body) ELSE DecimalValue(body)))
        ELSE IF Lower(body) = <<"i", "n", "f">> THEN Ret(PyInf)
        ELSE IF Lower(body) = <<"n", "a", "n">> THEN Ret(PyNaN)
        ELSE Raise("ValueError")

\* float(v)
FloatOf(v) ==
    CASE v.t = "int" -> Ret(PyFloat(v.n * Scale))
      [] v.t \in {"float", "inf", "nan"} -> Ret(v)
      [] v.t = "str" -> FloatOfStr(v.s)
      [] OTHER -> Raise("TypeError")

\* int(x) of a float: truncation towards zero; inf and nan have no int.
IntOf(v) ==
    CASE v.t = "float" ->
            Ret(PyInt(IF v.x >= 0 THEN v.x \div Scale ELSE -((-v.x) \div Scale)))
      [] v.t = "inf" -> Raise("OverflowError")
      [] v.t = "nan" -> Raise("ValueError")

\* round(num / den, 1) for num in Scale units: to the nearest tenth, a tie
\* going to the even digit.  (The floats of the model are multiples of 0.25
\* or lie away from a tie, so the binary value rounds like the decimal one.)
RoundTenth(num, den) ==
    LET unit == den * (Scale \div 10)
        q == num \div unit
        r == num % unit
        up == 2 * r > unit \/ (2 * r = unit /\ q % 2 = 1)
    IN  (IF up THEN q + 1 ELSE q) * (Scale \div 10)

\* round(v, 1)
Round1(v) ==
    CASE v.t = "int" -> Ret(v)
      [] v.t = "float" -> Ret(PyFloat(RoundTenth(v.x, 1)))
      [] v.t \in {"inf", "nan"} -> Ret(v)
      [] OTHER -> Raise("TypeError")

(***************************************************************************)
(* The sensors.  Each value_fn, available_fn and extra_state_attributes    *)
(* is an operator from the snapshot to an outcome.                         *)
(***************************************************************************)
PyBool(b) == [t |-> "bool", b |-> b]
Unknown == PyStr(<<"u", "n", "k", "n", "o", "w", "n">>)

\* try: body / except excs: return handler
Except(o, excs, handler) ==
    IF o.k = "raise" /\ o.e \in excs THEN Ret(handler) ELSE o

\* datetime.isoformat(): the text of a point in time.
IsoFormat(dt) == [t |-> "isoformat", x |-> dt.x]

\* helpers.format_bytes(n): the text of a byte count.
format_bytes(v) == [t |-> "bytes", of |-> v]

Sensors ==
    {"cpu_usage", "ram_usage", "uptime", "cpu_temperature",
     "motherboard_temperature", "docker_vdisk", "log_filesystem", "boot_usage"}

\* UnraidCPUUsageSensor
CPUUsage_value_fn(d) == Get2(d, "system_stats", "cpu_usage", None)

CPUUsage_available_fn(d) ==
    IF ~HasKey(d, "system_stats") THEN Ret(PyBool(FALSE))
    ELSE LET a == Get2(d, "system_stats", "cpu_usage", None)
         IN  IF a.k = "raise" THEN a ELSE Ret(PyBool(a.v # None))

CPUUsage_extra_state_attributes(d, t) ==
    LET st == Get(d, "system_stats", EmptyDict)
        cores == Get(st.v, "cpu_cores", Unknown)
        arch == Get(st.v, "cpu_arch", Unknown)
    IN  IF st.k = "raise" THEN st
        ELSE IF cores.k = "raise" THEN cores
        ELSE Ret(PyDict(<< <<"last_update", IsoFormat(PyDateTime(t * Scale))>>,
                           <<"core_count", cores.v>>,
                           <<"architecture", arch.v>> >>))

\* UnraidRAMUsageSensor
RAMUsage_value_fn(d) ==
    LET a == Get3(d, "system_stats", "memory_usage", "percentage", PyInt(0))
    IN  IF a.k = "raise" THEN a ELSE Round1(a.v)

RAMUsage_extra_state_attributes(d, t) ==
    LET memory == Get2(d, "system_stats", "memory_usage", EmptyDict)
        field(name) == Get(memory.v, name, Unknown)
    IN  IF memory.k = "raise" THEN memory
        ELSE IF field("total").k = "raise" THEN field("total")
        ELSE Ret(PyDict(<< <<"total", field("total").v>>,
                           <<"used", field("used").v>>,
                           <<"free", field("free").v>>,
                           <<"cached", field("cached").v>>,
                           <<"buffers", field("buffers").v>>,
                           <<"last_update", IsoFormat(PyDateTime(t * Scale))>> >>))

\* UnraidUptimeSensor
Uptime_available_fn(d) ==
    IF ~HasKey(d, "system_stats") THEN Ret(PyBool(FALSE))
    ELSE LET a == Get2(d, "system_stats", "uptime", None)
         IN  IF a.k = "raise" THEN a ELSE Ret(PyBool(a.v # None))

\* f"{days}d {hours}h {minutes}m"
UptimeText(days, hours, minutes) ==
    PyStr(IntChars(days) \o <<"d", " ">> \o IntChars(hours) \o <<"h", " ">>
          \o IntChars(minutes) \o <<"m">>)

\* The boot time taken from the whole seconds that the text is made of.
BootTimeWhole(t, uptime_seconds) ==
    PyDateTime(t * Scale - IntOf(uptime_seconds).v.n * Scale)

\* dt_util.now() - timedelta(seconds=uptime_seconds)
BootTime(t, uptime_seconds) == PyDateTime(t * Scale - uptime_seconds.x)

\* The divmod chain with the hours taken from the whole count instead of
\* the remainder of the days.
DayHourMinuteNoRemainder(whole) ==
    [days |-> whole \div 86400,
     hours |-> whole \div 3600,
     minutes |-> (whole % 3600) \div 60]

\* divmod(int(uptime_seconds), 86400), divmod(remainder, 3600),
\* divmod(remainder, 60)
DayHourMinute(whole) ==
    LET remainder == whole % 86400
    IN  [days |-> whole \div 86400,
         hours |-> remainder \div 3600,
         minutes |-> (remainder % 3600) \div 60]

\* _format_uptime at time t with _boot_time = bt: what it returns or raises,
\* and _boot_time afterwards.
_format_uptime(d, t, bt) ==
    LET raw == Get2(d, "system_stats", "uptime", PyInt(0))
        uptime_seconds == IF raw.k = "raise" THEN raw ELSE FloatOf(raw.v)
        whole == IF uptime_seconds.k = "raise" THEN uptime_seconds
                 ELSE IntOf(uptime_seconds.v)
        dhm == DayHourMinute(whole.v.n)
    IN  IF whole.k = "raise"
        THEN [res |-> Except(whole, {"TypeError", "ValueError"}, Unknown),
              boot |-> bt]
        ELSE [res |-> Ret(UptimeText(dhm.days, dhm.hours, dhm.minutes)),
              boot |-> BootTime(t, uptime_seconds.v)]

Uptime_extra_state_attributes(t, bt) ==
    Ret(PyDict(<< <<"boot_time", IF bt # None THEN IsoFormat(bt) ELSE None>>,
                  <<"last_update", IsoFormat(PyDateTime(t * Scale))>> >>))

\* obj.values() and obj.items(): AttributeError unless obj is a dict.
Values(obj) ==
    IF obj.t # "dict" THEN Raise("AttributeError")
    ELSE Ret([i \in 1..Len(obj.items) |-> obj.items[i][2]])

Items(obj) ==
    IF obj.t # "dict" THEN Raise("AttributeError") ELSE Ret(obj.items)

\* The range test without its upper bound.
InRangeNoUpper(temp) == temp.t = "float" /\ -50 * Scale <= temp.x

\* -50 <= temp <= 150 (false of inf and of nan)
InRange(temp) == temp.t = "float" /\ -50 * Scale <= temp.x /\ temp.x <= 150 * Scale

\* _parse_temperature without the removal of the " C" marker.
CPU_parse_temperature_NoSpaceC(s) ==
    LET cleaned == Strip(Remove(Remove(s, <<"deg", "C">>), <<"+">>))
        temp == FloatOfStr(cleaned)
    IN  IF temp.k = "raise" THEN None
        ELSE IF InRange(temp.v) THEN temp.v
        ELSE None

\* UnraidCPUTempSensor._parse_temperature: the float, or None.
CPU_parse_temperature(s) ==
    LET cleaned == Strip(Remove(Remove(Remove(s, <<"deg", "C">>), <<" ", "C">>), <<"+">>))
        temp == FloatOfStr(cleaned)
    IN  IF temp.k = "raise" THEN None
        ELSE IF InRange(temp.v) THEN temp.v
        ELSE None

\* bool(temp) of a float or None, as the walrus test reads it.
Truthy(temp) == temp # None /\ temp.x # 0

\* The inner loop over one group's items: core_temps with the group's
\* matches appended.
RECURSIVE CPU_scan_items(_, _)
CPU_scan_items(items, core_temps) ==
    IF items = <<>> THEN core_temps
    ELSE LET key == items[1][1]
             temp == CPU_parse_temperature(Str(items[1][2]))
         IN  IF /\ Contains(<<"C", "P", "U">>, key)
                /\ Contains(<<"T", "e", "m", "p">>, key)
                /\ Truthy(temp)
             THEN CPU_scan_items(Tail(items), Append(core_temps, temp))
             ELSE CPU_scan_items(Tail(items), core_temps)

\* The outer loop over sensors_data.values().
RECURSIVE CPU_scan_groups(_, _)
CPU_scan_groups(groups, core_temps) ==
    IF groups = <<>> THEN Ret(core_temps)
    ELSE LET items == Items(groups[1])
         IN  IF items.k = "raise" THEN items
             ELSE CPU_scan_groups(Tail(groups), CPU_scan_items(items.v, core_temps))

RECURSIVE SumOf(_)
SumOf(temps) == IF temps = <<>> THEN 0 ELSE temps[1].x + SumOf(Tail(temps))

\* UnraidCPUTempSensor._get_temperature
CPU_get_temperature(d) ==
    LET stats == Subscript(d, "system_stats")
        temp_data == IF stats.k = "raise" THEN stats
                     ELSE Get(stats.v, "temperature_data", EmptyDict)
        sensors_data == IF temp_data.k = "raise" THEN temp_data
                        ELSE Get(temp_data.v, "sensors", EmptyDict)
        groups == IF sensors_data.k = "raise" THEN sensors_data
                  ELSE Values(sensors_data.v)
        core_temps == IF groups.k = "raise" THEN groups
                      ELSE CPU_scan_groups(groups.v, <<>>)
        result == IF core_temps.k = "raise" THEN core_temps
                  ELSE IF core_temps.v # <<>>
                  THEN Ret(PyFloat(RoundTenth(SumOf(core_temps.v), Len(core_temps.v))))
                  ELSE Ret(None)
    IN  Except(result, {"KeyError", "ValueError", "TypeError"}, None)

\* UnraidMotherboardTempSensor._parse_temperature: the float, or None.
MB_parse_temperature(s) ==
    LET cleaned == Strip(Remove(Remove(Remove(s, <<"deg", "C">>), <<" ", "C">>), <<"+">>))
        temp == FloatOfStr(cleaned)
    IN  IF temp.k = "raise" THEN None
        ELSE IF InRange(temp.v) THEN temp.v
        ELSE None

mb_patterns ==
    << <<"m", "b", " ", "t", "e", "m", "p">>,
       <<"b", "o", "a", "r", "d", " ", "t", "e", "m", "p">>,
       <<"s", "y", "s", "t", "e", "m", " ", "t", "e", "m", "p">>,
       <<"m", "o", "t", "h", "e", "r", "b", "o", "a", "r", "d">>,
       <<"s", "y", "s", "t", "i", "n">>,
       <<"t", "e", "m", "p", "1">> >>

\* isinstance(value, (str, float))
IsStrOrFloat(v) == v.t \in {"str", "float", "inf", "nan"}

\* The loops return at the first match; a scan that found none says "next".
NoMatch == [k |-> "next"]

\* The innermost loop, over one group's items, for one pattern.
RECURSIVE MB_scan_items(_, _)
MB_scan_items(pattern_lower, items) ==
    IF items = <<>> THEN NoMatch
    ELSE LET key == items[1][1]
             val == items[1][2]
             temp == MB_parse_temperature(Str(val))
         IN  IF /\ IsStrOrFloat(val)
                /\ Contains(pattern_lower, Lower(key))
                /\ temp # None
             THEN Ret(temp)
             ELSE MB_scan_items(pattern_lower, Tail(items))

\* The loop over sensors_data.values(), for one pattern.
RECURSIVE MB_scan_groups(_, _)
MB_scan_groups(pattern_lower, groups) ==
    IF groups = <<>> THEN NoMatch
    ELSE LET items == Items(groups[1])
             found == MB_scan_items(pattern_lower, items.v)
         IN  IF items.k = "raise" THEN items
             ELSE IF found # NoMatch THEN found
             ELSE MB_scan_groups(pattern_lower, Tail(groups))

\* The loop over mb_patterns, in their order.
RECURSIVE MB_scan_patterns(_, _)
MB_scan_patterns(patterns, groups) ==
    IF patterns = <<>> THEN Ret(None)
    ELSE LET found == MB_scan_groups(Lower(patterns[1]), groups)
         IN  IF found # NoMatch THEN found
             ELSE MB_scan_patterns(Tail(patterns), groups)

\* UnraidMotherboardTempSensor._get_temperature
MB_get_temperature(d) ==
    LET stats == Subscript(d, "system_stats")
        temp_data == IF stats.k = "raise" THEN stats
                     ELSE Get(stats.v, "temperature_data", EmptyDict)
        sensors_data == IF temp_data.k = "raise" THEN temp_data
                        ELSE Get(temp_data.v, "sensors", EmptyDict)
        groups == IF sensors_data.k = "raise" THEN sensors_data
                  ELSE Values(sensors_data.v)
        result == IF groups.k = "raise" THEN groups
                  ELSE MB_scan_patterns(mb_patterns, groups.v)
    IN  Except(result, {"KeyError", "TypeError", "ValueError", "AttributeError"}, None)

\* UnraidDockerVDiskSensor, UnraidLogFileSystemSensor, UnraidBootUsageSensor:
\* the same code over the keys docker_vdisk, log_filesystem and boot_usage.
Usage_value_fn(d, key) == Get3(d, "system_stats", key, "percentage", None)

Usage_extra_state_attributes(d, key, t) ==
    LET usage == Get2(d, "system_stats", key, EmptyDict)
        field(name) == Get(usage.v, name, PyInt(0))
        result ==
            IF usage.k = "raise" THEN usage
            ELSE IF field("total").k = "raise" THEN field("total")
            ELSE Ret(PyDict(<< <<"total_size", format_bytes(field("total").v)>>,
                               <<"used_space", format_bytes(field("used").v)>>,
                               <<"free_space", format_bytes(field("free").v)>>,
                               <<"last_update", IsoFormat(PyDateTime(t * Scale))>> >>))
    IN  Except(result, {"KeyError", "TypeError", "AttributeError"}, EmptyDict)

DockerVDisk_value_fn(d) == Usage_value_fn(d, "docker_vdisk")
LogFileSystem_value_fn(d) == Usage_value_fn(d, "log_filesystem")
BootUsage_value_fn(d) == Usage_value_fn(d, "boot_usage")

DockerVDisk_extra_state_attributes(d, t) == Usage_extra_state_attributes(d, "docker_vdisk", t)
LogFileSystem_extra_state_attributes(d, t) == Usage_extra_state_attributes(d, "log_filesystem", t)
BootUsage_extra_state_attributes(d, t) == Usage_extra_state_attributes(d, "boot_usage", t)

\* The value_fn of sensor s on snapshot d at time t, with _boot_time = bt:
\* its outcome, and _boot_time afterwards.
value_fn(s, d, t, bt) ==
    CASE s = "cpu_usage" -> [res |-> CPUUsage_value_fn(d), boot |-> bt]
      [] s = "ram_usage" -> [res |-> RAMUsage_value_fn(d), boot |-> bt]
      [] s = "uptime" -> _format_uptime(d, t, bt)
      [] s = "cpu_temperature" -> [res |-> CPU_get_temperature(d), boot |-> bt]
      [] s = "motherboard_temperature" -> [res |-> MB_get_temperature(d), boot |-> bt]
      [] s = "docker_vdisk" -> [res |-> DockerVDisk_value_fn(d), boot |-> bt]
      [] s = "log_filesystem" -> [res |-> LogFileSystem_value_fn(d), boot |-> bt]
      [] s = "boot_usage" -> [res |-> BootUsage_value_fn(d), boot |-> bt]

\* The sensors whose description sets an available_fn.
WithAvailableFn == {"cpu_usage", "uptime"}

available_fn(s, d) ==
    CASE s = "cpu_usage" -> CPUUsage_available_fn(d)
      [] s = "uptime" -> Uptime_available_fn(d)

\* The sensors that define extra_state_attributes.
WithAttributes ==
    {"cpu_usage", "ram_usage", "uptime", "docker_vdisk", "log_filesystem", "boot_usage"}

extra_state_attributes(s, d, t, bt) ==
    CASE s = "cpu_usage" -> CPUUsage_extra_state_attributes(d, t)
      [] s = "ram_usage" -> RAMUsage_extra_state_attributes(d, t)
      [] s = "uptime" -> Uptime_extra_state_attributes(t, bt)
      [] s = "docker_vdisk" -> DockerVDisk_extra_state_attributes(d, t)
      [] s = "log_filesystem" -> LogFileSystem_extra_state_attributes(d, t)
      [] s = "boot_usage" -> BootUsage_extra_state_attributes(d, t)

(***************************************************************************)
(* Bounds.                                                                 *)
(***************************************************************************)
MaxNow == 1         \* the clock runs from 0 to MaxNow seconds
MaxPresent == 2     \* keys present in system_stats at once
MaxDays == 2        \* whole days of uptime
MaxGroups == 2      \* sensor groups in temperature_data.sensors
MaxEntries == 2     \* entries in all the groups together
MaxOver == 2        \* degrees the written readings go beyond [-50, 150]

(***************************************************************************)
(* Snapshots.                                                              *)
(***************************************************************************)
Chars_abc == <<"a", "b", "c">>
KeyCPUTemp == <<"C", "P", "U", " ", "T", "e", "m", "p">>
KeyMBTemp == <<"M", "B", " ", "T", "e", "m", "p">>
KeyBoardTemp == <<"B", "o", "a", "r", "d", " ", "T", "e", "m", "p">>
Text45C == <<"+", "4", "5", ".", "0", "deg", "C">>
Text50C == <<"+", "5", "0", ".", "5", "deg", "C">>

Snapshot(stats) == PyDict(<< <<"system_stats", stats>> >>)

UsageDict ==
    PyDict(<< <<"percentage", PyInt(50)>>, <<"total", PyInt(1024)>>,
              <<"used", PyInt(512)>>, <<"free", PyInt(512)>> >>)

StatKeys ==
    <<"cpu_usage", "memory_usage", "uptime", "temperature_data",
      "docker_vdisk", "log_filesystem", "boot_usage">>

\* What a key of system_stats may hold: a well-formed value, None, a mapping
\* without the sub-key, a value of the wrong type.
StatChoices(key) ==
    CASE key = "cpu_usage" -> {None, PyFloat(1250)}
      [] key = "memory_usage" ->
            {None, EmptyDict,
             PyDict(<< <<"percentage", PyFloat(4225)>>, <<"total", PyInt(1024)>> >>),
             PyDict(<< <<"percentage", PyStr(Chars_abc)>> >>)}
      [] key = "uptime" -> {None, PyInt(90000), PyInf, PyStr(Chars_abc)}
      [] key = "temperature_data" ->
            {None, EmptyDict,
             PyDict(<< <<"sensors", None>> >>),
             PyDict(<< <<"sensors", PyDict(<< <<"coretemp", None>> >>)>> >>),
             PyDict(<< <<"sensors", PyDict(<< <<"coretemp",
                 PyDict(<< <<KeyCPUTemp, PyStr(Text45C)>>,
                           <<KeyMBTemp, PyFloat(4500)>> >>)>> >>)>> >>)}
      [] OTHER -> {None, EmptyDict, UsageDict}

\* The items of system_stats from key number i on, at most n of them present.
RECURSIVE StatItems(_, _)
StatItems(i, n) ==
    IF i > Len(StatKeys) THEN {<<>>}
    ELSE StatItems(i + 1, n)
         \cup (IF n = 0 THEN {}
               ELSE {<< <<StatKeys[i], c>> >> \o rest :
                        c \in StatChoices(StatKeys[i]), rest \in StatItems(i + 1, n - 1)})

StatsDicts == {PyDict(items) : items \in StatItems(1, MaxPresent)}

\* Snapshots whose fields are present, missing or malformed.
FieldSnapshots ==
    {EmptyDict, Snapshot(None)} \cup {Snapshot(st) : st \in StatsDicts}

\* Uptimes of whole seconds, around the day, hour and minute boundaries.
UptimeSeconds ==
    {d * 86400 + h * 3600 + m * 60 + sec :
        d \in 0..MaxDays, h \in {1, 23}, m \in {0, 59}, sec \in {0, 59}}

UptimeValues ==
    {PyInt(n) : n \in UptimeSeconds}
    \cup {PyFloat(n * Scale + 50) : n \in {0, 59, 90000}}
    \cup {PyFloat(n * Scale) : n \in {60, 90000}}
    \cup {PyStr(IntChars(n)) : n \in {60, 90000}}
    \cup {PyStr(<<"9", "0", "0", "0", "0", ".", "5">>), PyStr(<<" ", "6", "0", " ">>)}
    \cup {None, PyInf, PyNaN, PyStr(Chars_abc), PyInt(-1), PyFloat(-50), EmptyDict}

UptimeSnapshots ==
    {EmptyDict, Snapshot(None), Snapshot(EmptyDict)}
    \cup {Snapshot(PyDict(<< <<"uptime", u>> >>)) : u \in UptimeValues}

\* Entries of the sensor groups: a label and the reading stored under it.
TempKeys == {KeyCPUTemp, KeyMBTemp, KeyBoardTemp}
TempValues ==
    {PyInt(150), PyStr(Text50C), PyInt(0), PyStr(<<"1", "5", "1">>),
     PyFloat(-50 * Scale)}
TempEntries == {<<key, val>> : key \in TempKeys, val \in TempValues}

GroupName(i) == <<"h", "w", "m", "o", "n">> \o NatChars(i)

\* The shape of sensors_data: per group its number of entries, -1 for a
\* group that is None instead of a mapping.
EntriesIn(size) == IF size < 0 THEN 0 ELSE size
RECURSIVE EntriesBefore(_, _)
EntriesBefore(shape, i) ==
    IF i = 1 THEN 0 ELSE EntriesBefore(shape, i - 1) + EntriesIn(shape[i - 1])
TotalEntries(shape) == EntriesBefore(shape, Len(shape) + 1)

Shapes ==
    UNION {{shape \in [1..m -> -1..MaxEntries] : TotalEntries(shape) <= MaxEntries} :
              m \in 0..MaxGroups}

DistinctKeys(items) ==
    \A i, j \in 1..Len(items) : items[i][1] = items[j][1] => i = j

GroupOf(shape, flat, i) ==
    IF shape[i] < 0 THEN None
    ELSE PyDict(SubSeq(flat, EntriesBefore(shape, i) + 1,
                       EntriesBefore(shape, i) + shape[i]))

SensorsData(shape, flat) ==
    PyDict([i \in 1..Len(shape) |-> <<GroupName(i), GroupOf(shape, flat, i)>>])

WellFormed(shape, flat) ==
    \A i \in 1..Len(shape) :
        IF shape[i] < 0 THEN TRUE ELSE DistinctKeys(GroupOf(shape, flat, i).items)

TempData(td) == Snapshot(PyDict(<< <<"temperature_data", td>> >>))

\* Snapshots without sensor groups: a level of the path missing or None.
NoGroupSnapshots ==
    {EmptyDict, Snapshot(None), Snapshot(EmptyDict), TempData(None),
     TempData(EmptyDict), TempData(PyDict(<< <<"sensors", None>> >>))}

\* d is a snapshot for the temperature sensors.
IsTempSnapshot(d) ==
    \/ d \in NoGroupSnapshots
    \/ \E shape \in Shapes :
          \E flat \in [1..TotalEntries(shape) -> TempEntries] :
              /\ WellFormed(shape, flat)
              /\ d = TempData(PyDict(<< <<"sensors", SensorsData(shape, flat)>> >>))

\* Texts of readings.  A number is written with a sign, an integer part and
\* a fraction; around it go an optional '+' and an optional unit marker with
\* whitespace on either side.
IntParts ==
    (0..MaxOver) \cup {45} \cup ((50 - MaxOver)..(50 + MaxOver))
    \cup ((150 - MaxOver)..(150 + MaxOver))
Fractions ==
    {[text |-> <<>>, hundredths |-> 0],
     [text |-> <<".", "0">>, hundredths |-> 0],
     [text |-> <<".", "5">>, hundredths |-> 50],
     [text |-> <<".", "2", "5">>, hundredths |-> 25]}
Prefixes == {<<>>, <<"+">>}
Markers == {<<>>, <<"deg", "C">>, <<" ", "C">>}
Spaces == {<<>>, <<" ">>, <<"tab">>}
Suffixes == {a \o m \o b : a \in Spaces, m \in Markers, b \in Spaces}

NumberReadings ==
    {[value |-> pre \o (IF neg THEN <<"-">> ELSE <<>>) \o NatChars(ip) \o fr.text \o suf,
      written |-> PyFloat((IF neg THEN -1 ELSE 1) * (ip * Scale + fr.hundredths))] :
        pre \in Prefixes, neg \in BOOLEAN, ip \in IntParts, fr \in Fractions,
        suf \in Suffixes}

OtherReadings ==
    {[value |-> txt, written |-> None] :
        txt \in {<<>>, <<"N", "/", "A">>, <<"4", " ", "5">>, <<"4", "5", " ", "F">>,
                 <<"deg", "C">>, <<"n", "a", "n">>, <<"4", "5", "tab", "C">>,
                 <<"N", "o", "n", "e">>, <<"+">>, <<"-">>, <<".">>}}

Readings == NumberReadings \cup OtherReadings

(***************************************************************************)
(* The state machine.                                                      *)
(***************************************************************************)
Idle == [sensor |-> "none", fn |-> "none"]

InitRest(readings) ==
    /\ now = 0
    /\ boot_time = None
    /\ \E r \in readings : value = r.value /\ written = r.written
    /\ out = Idle

InitWith(snapshots, readings) ==
    /\ data \in snapshots
    /\ InitRest(readings)

NoReading == {[value |-> <<>>, written |-> None]}

\* The coordinator replaces the snapshot.
Refresh(snapshots) ==
    /\ data' \in snapshots
    /\ out' = Idle
    /\ UNCHANGED <<now, boot_time, value, written>>

RefreshFields == Refresh(FieldSnapshots)
RefreshUptime == Refresh(UptimeSnapshots)

\* Time passes.
Tick ==
    /\ now < MaxNow
    /\ now' = now + 1
    /\ UNCHANGED <<data, boot_time, value, written, out>>

\* The platform reads the state of sensor s: value_fn(coordinator.data).
ReadValue(s) ==
    LET r == value_fn(s, data, now, boot_time)
    IN  /\ out' = [sensor |-> s, fn |-> "value_fn", res |-> r.res]
        /\ boot_time' = r.boot
        /\ UNCHANGED <<data, now, value, written>>

\* The platform asks whether sensor s is available.
ReadAvailable(s) ==
    /\ out' = [sensor |-> s, fn |-> "available_fn", res |-> available_fn(s, data)]
    /\ UNCHANGED <<data, now, boot_time, value, written>>

\* The platform reads the attributes of sensor s.
ReadAttributes(s) ==
    /\ out' = [sensor |-> s, fn |-> "extra_state_attributes",
               res |-> extra_state_attributes(s, data, now, boot_time)]
    /\ UNCHANGED <<data, now, boot_time, value, written>>

ReadAnyValue == \E s \in Sensors : ReadValue(s)
ReadAnyAvailable == \E s \in WithAvailableFn : ReadAvailable(s)
ReadAnyAttributes == \E s \in WithAttributes : ReadAttributes(s)

ReadUptimeAttributes == ReadAttributes("uptime")
ReadCPUTemp == ReadValue("cpu_temperature")
ReadMBTemp == ReadValue("motherboard_temperature")

ParseCPU ==
    /\ out' = [sensor |-> "cpu_temperature", fn |-> "_parse_temperature",
               res |-> Ret(CPU_parse_temperature(value))]
    /\ UNCHANGED <<data, now, boot_time, value, written>>

ParseMB ==
    /\ out' = [sensor |-> "motherboard_temperature", fn |-> "_parse_temperature",
               res |-> Ret(MB_parse_temperature(value))]
    /\ UNCHANGED <<data, now, boot_time, value, written>>

\* All the sensors over snapshots with missing and malformed fields.
Init == InitWith(FieldSnapshots, NoReading)
Next == RefreshFields \/ Tick \/ ReadAnyValue \/ ReadAnyAvailable \/ ReadAnyAttributes
Spec == Init /\ [][Next]_vars

\* The reads of all the sensors over the uptimes and the clock.
InitUptime == InitWith(UptimeSnapshots, NoReading)
NextUptime == RefreshUptime \/ Tick \/ ReadAnyValue \/ ReadUptimeAttributes
SpecUptime == InitUptime /\ [][NextUptime]_vars

\* _get_temperature of both sensors, a function of the snapshot alone, over
\* the sensor groups.
InitTemp == IsTempSnapshot(data) /\ InitRest(NoReading)
NextTemp == ReadCPUTemp \/ ReadMBTemp
SpecTemp == InitTemp /\ [][NextTemp]_vars

\* _parse_temperature of both sensors, a function of its argument alone,
\* over the texts of readings.
InitParse == InitWith({EmptyDict}, Readings)
NextParse == ParseCPU \/ ParseMB
SpecParse == InitParse /\ [][NextParse]_vars

(***************************************************************************)
(* Reading the snapshot, for the properties below.                         *)
(***************************************************************************)
ValueRead(s) == out.sensor = s /\ out.fn = "value_fn"

\* The path to a key is cut short: a mapping on the way lacks the next key.
RECURSIVE PathMissing(_, _)
PathMissing(obj, path) ==
    /\ path # <<>>
    /\ obj.t = "dict"
    /\ \/ ~HasKey(obj, path[1])
       \/ PathMissing(Lookup(obj, path[1]), Tail(path))

FieldPath(s) ==
    CASE s = "cpu_usage" -> <<"system_stats", "cpu_usage">>
      [] s = "ram_usage" -> <<"system_stats", "memory_usage", "percentage">>
      [] s = "uptime" -> <<"system_stats", "uptime">>
      [] s \in {"cpu_temperature", "motherboard_temperature"} ->
            <<"system_stats", "temperature_data", "sensors">>
      [] s = "docker_vdisk" -> <<"system_stats", "docker_vdisk", "percentage">>
      [] s = "log_filesystem" -> <<"system_stats", "log_filesystem", "percentage">>
      [] s = "boot_usage" -> <<"system_stats", "boot_usage", "percentage">>

FieldMissing(s, d) == PathMissing(d, FieldPath(s))

\* The value at the end of a path of mappings, None where the path breaks.
RECURSIVE AtPath(_, _)
AtPath(obj, path) ==
    IF path = <<>> THEN obj
    ELSE IF obj.t = "dict" /\ HasKey(obj, path[1])
    THEN AtPath(Lookup(obj, path[1]), Tail(path))
    ELSE None

UptimeGiven(d) == ~PathMissing(d, <<"system_stats", "uptime">>)
UptimeValue(d) == AtPath(d, <<"system_stats", "uptime">>)

\* temperature_data.sensors when it is a mapping, and its entries: group
\* number, place in the group, label and stored reading.
SensorsOf(d) == AtPath(d, <<"system_stats", "temperature_data", "sensors">>)
HasSensors(d) == SensorsOf(d).t = "dict"
GroupAt(d, g) == SensorsOf(d).items[g][2]
EntriesOf(d) ==
    IF ~HasSensors(d) THEN {}
    ELSE UNION {IF GroupAt(d, g).t # "dict" THEN {}
                ELSE {[g |-> g, i |-> i,
                       key |-> GroupAt(d, g).items[i][1],
                       val |-> GroupAt(d, g).items[i][2]] :
                         i \in 1..Len(GroupAt(d, g).items)} :
                  g \in 1..Len(SensorsOf(d).items)}

\* The snapshot with every entry <<key, val>> replaced by F(g, i, key, val).
MapEntries(d, F(_, _, _, _)) ==
    IF ~HasSensors(d) THEN d
    ELSE TempData(PyDict(<< <<"sensors",
            PyDict([g \in 1..Len(SensorsOf(d).items) |->
                <<SensorsOf(d).items[g][1],
                  IF GroupAt(d, g).t # "dict" THEN GroupAt(d, g)
                  ELSE PyDict([i \in 1..Len(GroupAt(d, g).items) |->
                          F(g, i, GroupAt(d, g).items[i][1],
                            GroupAt(d, g).items[i][2])])>>])>> >>))

LowerKeys(d) == MapEntries(d, LAMBDA g, i, key, val : <<Lower(key), val>>)

ReplaceValue(d, e, v) ==
    MapEntries(d, LAMBDA g, i, key, val :
                      IF g = e.g /\ i = e.i THEN <<key, v>> ELSE <<key, val>>)

TempLow == -50 * Scale
TempHigh == 150 * Scale

(***************************************************************************)
(* Properties.                                                             *)
(***************************************************************************)

\* C1: a sensor whose field is missing from the snapshot (system_stats, its
\* key or its sub-key is absent) reports unavailable: its available_fn is
\* false, or its value_fn returns None or "unknown".
C1_MissingFieldUnavailable ==
    (out.fn = "value_fn" /\ FieldMissing(out.sensor, data)) =>
        \/ /\ out.sensor \in WithAvailableFn
           /\ available_fn(out.sensor, data) = Ret(PyBool(FALSE))
        \/ out.res \in {Ret(None), Ret(Unknown)}

\* C2: on every snapshot, malformed ones included, value_fn and
\* extra_state_attributes return; no exception reaches the caller.
C2_NoExceptionReachesCaller ==
    out.fn \in {"value_fn", "extra_state_attributes"} => out.res.k = "ret"

\* C3: for a non-negative whole number s of uptime seconds, _format_uptime
\* returns "<d>d <h>h <m>m" with d = s div 86400, h = (s mod 86400) div 3600,
\* m = (s mod 3600) div 60, so 0 <= h <= 23, 0 <= m <= 59 and
\* d*86400 + h*3600 + m*60 <= s < d*86400 + h*3600 + m*60 + 60; 90000 gives
\* "1d 1h 0m".
IsWholeSeconds(u) ==
    \/ u.t = "int" /\ u.n >= 0
    \/ u.t = "float" /\ u.x >= 0 /\ u.x % Scale = 0
WholeSeconds(u) == IF u.t = "int" THEN u.n ELSE u.x \div Scale
DayHourMinuteText(d, h, m) ==
    PyStr(NatChars(d) \o <<"d", " ">> \o NatChars(h) \o <<"h", " ">>
          \o NatChars(m) \o <<"m">>)
Text_1d_1h_0m == PyStr(<<"1", "d", " ", "1", "h", " ", "0", "m">>)

C3_UptimeFormat ==
    (ValueRead("uptime") /\ UptimeGiven(data) /\ IsWholeSeconds(UptimeValue(data))) =>
        LET s == WholeSeconds(UptimeValue(data))
            d == s \div 86400
            h == (s % 86400) \div 3600
            m == (s % 3600) \div 60
        IN  /\ out.res = Ret(DayHourMinuteText(d, h, m))
            /\ 0 <= h /\ h <= 23 /\ 0 <= m /\ m <= 59
            /\ d * 86400 + h * 3600 + m * 60 <= s
            /\ s < d * 86400 + h * 3600 + m * 60 + 60
            /\ (s = 90000 => out.res = Ret(Text_1d_1h_0m))

C3_Witness ==
    /\ ValueRead("uptime")
    /\ UptimeValue(data) = PyInt(90000)
    /\ out.res = Ret(Text_1d_1h_0m)

\* C4: for a text made of an optional '+', a decimal number n in [-50, 150]
\* and an optional unit marker ("deg C" or " C") with whitespace around it,
\* _parse_temperature of either sensor returns exactly n; for a text that
\* holds no number it returns None.
C4_ParseTemperature ==
    out.fn = "_parse_temperature" =>
        /\ (written # None /\ TempLow <= written.x /\ written.x <= TempHigh)
              => out.res = Ret(written)
        /\ written = None => out.res = Ret(None)

C4_Witness ==
    /\ out.fn = "_parse_temperature"
    /\ value = Text45C
    /\ out.res = Ret(PyFloat(45 * Scale))

\* C5: values outside [-50, 150] are rejected: _parse_temperature of either
\* sensor returns None below -50 and above 150 and accepts -50 and 150, and
\* the value the CPU or the motherboard temperature sensor reports is None
\* or a number in [-50, 150].
RangeCases ==
    {[text |-> <<"-", "5", "0", ".", "2", "5">>, is |-> None],
     [text |-> <<"-", "5", "1">>, is |-> None],
     [text |-> <<"-", "5", "0">>, is |-> PyFloat(TempLow)],
     [text |-> <<"+", "1", "5", "0", ".", "0", "deg", "C">>, is |-> PyFloat(TempHigh)],
     [text |-> <<"1", "5", "0", ".", "2", "5">>, is |-> None],
     [text |-> <<"1", "5", "1", " ", "C">>, is |-> None]}

C5_OutOfRangeRejected ==
    /\ \A c \in RangeCases :
          CPU_parse_temperature(c.text) = c.is /\ MB_parse_temperature(c.text) = c.is
    /\ (out.fn = "value_fn" /\ out.res.k = "ret") =>
          \/ out.res.v = None
          \/ out.res.v.t = "float" /\ TempLow <= out.res.v.x /\ out.res.v.x <= TempHigh

C5_Witness ==
    /\ ValueRead("motherboard_temperature")
    /\ out.res = Ret(None)
    /\ \E e \in EntriesOf(data) :
          e.key = KeyMBTemp /\ e.val = PyStr(<<"1", "5", "1">>)

\* C6: the CPU temperature sensor reports the mean, rounded to one decimal,
\* of the parsed values of every entry of every group whose key contains
\* "CPU" and "Temp" and whose value parses to a number in [-50, 150], a
\* reading of exactly 0 included; it reports None only when there is none.
CPUMatches(d) ==
    {e \in EntriesOf(d) :
        /\ Contains(<<"C", "P", "U">>, e.key)
        /\ Contains(<<"T", "e", "m", "p">>, e.key)
        /\ CPU_parse_temperature(Str(e.val)) # None}

RECURSIVE SumOfReadings(_)
SumOfReadings(es) ==
    IF es = {} THEN 0
    ELSE LET e == CHOOSE x \in es : TRUE
         IN  CPU_parse_temperature(Str(e.val)).x + SumOfReadings(es \ {e})

C6_CPUAveragesAllMatches ==
    (ValueRead("cpu_temperature") /\ out.res.k = "ret") =>
        out.res.v =
            IF CPUMatches(data) = {} THEN None
            ELSE PyFloat(RoundTenth(SumOfReadings(CPUMatches(data)),
                                    Cardinality(CPUMatches(data))))

\* C7: the motherboard temperature sensor reports a reading of an entry that
\* matches the earliest pattern of mb_patterns with any valid in-range
\* reading in any group; an unparseable or out-of-range reading does not
\* stop the search, and it reports None only when no pattern has one.
MBValid(d, p) ==
    {e \in EntriesOf(d) :
        /\ Contains(mb_patterns[p], Lower(e.key))
        /\ MB_parse_temperature(Str(e.val)) # None}

C7_MBPatternPriority ==
    ValueRead("motherboard_temperature") =>
        IF \A p \in 1..Len(mb_patterns) : MBValid(data, p) = {}
        THEN out.res = Ret(None)
        ELSE LET first == CHOOSE p \in 1..Len(mb_patterns) :
                              /\ MBValid(data, p) # {}
                              /\ \A q \in 1..(p - 1) : MBValid(data, q) = {}
             IN  \E e \in MBValid(data, first) :
                     out.res = Ret(MB_parse_temperature(Str(e.val)))

\* C8: the labels are matched without regard to case by both temperature
\* sensors: lower-casing the keys of the entries changes neither value.
C8_CaseInsensitiveLabels ==
    (out.fn = "value_fn" /\ out.sensor \in {"cpu_temperature", "motherboard_temperature"}) =>
        out.res = value_fn(out.sensor, LowerKeys(data), now, boot_time).res

\* C9: _boot_time is None until the first _format_uptime call that returns a
\* text; after such a call it is the time of the call minus the snapshot's
\* uptime seconds; a call that returns "unknown" leaves it as it was; and
\* nothing but such a call changes it.  The boot_time attribute shows it.
FormattedUptime(o) ==
    /\ o.sensor = "uptime" /\ o.fn = "value_fn"
    /\ o.res.k = "ret" /\ o.res.v # Unknown

SnapshotUptime(d) == FloatOf(Get2(d, "system_stats", "uptime", PyInt(0)).v).v.x

C9_Step ==
    /\ boot_time' # boot_time =>
          now' = now /\ data' = data /\ FormattedUptime(out')
    /\ (now' = now /\ data' = data /\ out'.sensor = "uptime" /\ out'.fn = "value_fn") =>
          IF FormattedUptime(out')
          THEN boot_time' = PyDateTime(now * Scale - SnapshotUptime(data))
          ELSE boot_time' = boot_time
    /\ (out'.sensor = "uptime" /\ out'.fn = "extra_state_attributes") =>
          Lookup(out'.res.v, "boot_time") =
              IF boot_time' = None THEN None ELSE IsoFormat(boot_time')

C9_BootTimeFollowsReads == boot_time = None /\ [][C9_Step]_vars

C9_Witness ==
    /\ ValueRead("uptime")
    /\ out.res = Ret(Unknown)
    /\ boot_time = PyDateTime(-50)

\* C10: the motherboard temperature sensor reports the same value whether a
\* reading is stored as an integer, a float or a string of the same number.
SameNumber(v) ==
    IF IsNumber(v) /\ Num(v) % Scale = 0
    THEN {PyInt(Num(v) \div Scale), PyFloat(Num(v)), PyStr(IntChars(Num(v) \div Scale))}
    ELSE {v}

C10_MBStorageIndependent ==
    ValueRead("motherboard_temperature") =>
        \A e \in EntriesOf(data) : \A v \in SameNumber(e.val) :
            MB_get_temperature(ReplaceValue(data, e, v)) = out.res

====
